---- MODULE Spec2Model ----
(***************************************************************************)
(* Offline-first sync engine of the consignment intake application:        *)
(* the idb-based local store (forms + syncQueue object stores), the push   *)
(* engine processSyncQueue / processSyncItem, the pull / merge engine      *)
(* pullFromRemote / updateFormFromRemote and the record CRUD API saveForm, *)
(* loadForm, deleteForm.                                                   *)
(*                                                                         *)
(* Every asynchronous handler is a process whose position (pc) is a        *)
(* variable.  One step of a process executes the IndexedDB or network      *)
(* operation the handler is awaiting and then runs the handler's           *)
(* synchronous continuation up to the next awaited operation.  Operations  *)
(* that are pending in different handlers complete in any order: every     *)
(* order in which the browser completes them is one of these.              *)
(***************************************************************************)
EXTENDS Integers, Sequences, FiniteSets, TLC

\* ------------------------------------------------------------------ bounds
\* A behaviour holds at most this many external events.  In Spec and SpecPush
\* every call of saveForm, deleteForm and fullSync, every online / offline
\* event, every write of another device and every clock tick is one event; in
\* SpecBackoff the calls of saveForm are (the retry cap bounds the rest).  The
\* steps the handlers take in response are never counted.
MaxEvents == 5       \* Spec
MaxEventsP == 4      \* SpecPush
MaxEventsB == 1      \* SpecBackoff
MaxEventsR == 5      \* SpecRealtime
MaxEventsL == 3      \* SpecLive
MaxEventsT == 3      \* SpecTimer
MaxEventsC == 4      \* SpecReset
MaxEventsU == 5      \* SpecPull
MaxEventsK == 3      \* SpecCodec
MaxEventsV == 3      \* SpecValidate
MaxEventsG == 4      \* SpecGuard
MaxEventsX == 4      \* SpecCrash
MaxEventsD == 4      \* SpecDelete

Ids == {"f1", "f2"}
IdOrder == <<"f1", "f2">>      \* key order of the forms object store
PassSlots == {1, 2}            \* room for drain passes (the lock allows one)

\* ------------------------------------------------------- JavaScript values
Undefined == "undefined"
Null == "null"
Falsy(v) == v \in {"", Undefined, Null}
OrElse(v, d) == IF Falsy(v) THEN d ELSE v          \* v || d
Trim(s) == IF s = " " THEN "" ELSE s               \* String.prototype.trim
NoTime == 0                                        \* an absent timestamp

\* ------------------------------------------------------------- IntakeForm
IntakeForm(id, ctype, name, number, items, sigDate, upd) ==
  [id |-> id, consignerType |-> ctype, consignerName |-> name,
   consignerNumber |-> number, status |-> "draft", items |-> items,
   signatureDate |-> sigDate, updatedAt |-> upd]

\* The forms the UI saves for record id (saveCurrentForm stamps signatureDate
\* and updatedAt before it calls saveForm; the save path never reads them): a
\* valid new consigner with no items, the same with one item, and a new
\* consigner whose name is empty.
SigDate == "2024-01-01"
UiDate == 1
ValidForm(id) == IntakeForm(id, "new", "Jane Doe", Undefined, <<>>, SigDate, UiDate)
FormInputs(id) ==
  { ValidForm(id),
    IntakeForm(id, "new", "Jane Doe", Undefined, <<"Lamp">>, SigDate, UiDate),
    IntakeForm(id, "new", "", Undefined, <<>>, SigDate, UiDate) }

\* The forms of record id over the values a field of the UI's form takes:
\* initNewForm starts consignerName and consignerNumber as '', the consigner
\* dialog fills them in, and a form loaded from a remote row has no
\* consignerNumber at all.
CodecInputs(id) ==
  { IntakeForm(id, ctype, name, number, items, SigDate, UiDate) :
      ctype \in {"new", "existing"}, name \in {"Jane Doe", ""},
      number \in {Undefined, "", "C-17"}, items \in {<<>>, <<"Lamp">>} }

\* Forms of record id that validateForm turns down, one for each of its
\* tests that a stored record can meet, and a valid one.
InvalidInputs(id) ==
  { IntakeForm(id, Undefined, "Jane Doe", Undefined, <<>>, SigDate, UiDate),
    IntakeForm(id, "new", "", Undefined, <<>>, SigDate, UiDate),
    IntakeForm(id, "new", " ", Undefined, <<>>, SigDate, UiDate),
    IntakeForm(id, "existing", "Jane Doe", "", <<>>, SigDate, UiDate) }

AcceptAll(form) == ""

\* validateForm: the error message, or "" when the form is valid.
validateForm(form) ==
  IF Falsy(form.id) THEN "Missing form ID"
  ELSE IF Falsy(form.consignerType) THEN "Missing consigner type"
  ELSE IF form.consignerType = "new" /\ Falsy(Trim(form.consignerName))
    THEN "New consigner requires name"
  ELSE IF form.consignerType = "existing" /\ Falsy(form.consignerNumber)
    THEN "Existing consigner requires number"
  ELSE ""

\* -------------------------------------------------------------- the codec
\* The row processSyncItem sends (insert and update send the same columns,
\* insert adds id); updated_at is stamped by the table's trigger.
toRemoteRow(form, t) ==
  [id |-> form.id,
   consigner_type |-> form.consignerType,
   consigner_name |-> OrElse(form.consignerName, ""),
   consigner_number |-> OrElse(form.consignerNumber, Null),
   status |-> OrElse(form.status, "draft"),
   items |-> form.items,
   updated_at |-> t]

mapRemoteToLocal(data) ==
  [id |-> data.id,
   consignerType |-> data.consigner_type,
   consignerName |-> data.consigner_name,
   consignerNumber |-> OrElse(data.consigner_number, Undefined),
   status |-> data.status,
   items |-> data.items,
   signatureDate |-> Undefined,
   updatedAt |-> data.updated_at]

\* localFormToIntakeForm: the fields loadForm copies out of a LocalForm.
localFormToIntakeForm(local) ==
  [id |-> local.localId,
   consignerType |-> local.form.consignerType,
   consignerName |-> local.form.consignerName,
   consignerNumber |-> local.form.consignerNumber,
   status |-> local.form.status,
   items |-> local.form.items,
   updatedAt |-> local.form.updatedAt]

\* A field of a JavaScript object: undefined when the object has no such field.
Field(obj, f) == IF f \in DOMAIN obj THEN obj[f] ELSE Undefined

\* ------------------------------------------------------------ local store
Absent == [absent |-> TRUE]                 \* db.get found nothing
NoRemoteId == Undefined

\* LocalForm: the IntakeForm plus the sync metadata (syncedAt is written and
\* never read, so it is not kept).
LocalForm(form, remoteId, synced, t) ==
  [form |-> form, localId |-> form.id, remoteId |-> remoteId,
   synced |-> synced, localUpdatedAt |-> t]

VARIABLES
  events,       \* the external events so far
  forms,        \* forms object store: localId -> LocalForm | Absent
  queue,        \* syncQueue object store: a set of SyncQueueItem
  nextKey,      \* the auto-increment key generator of syncQueue
  remote,       \* the remote forms table: id -> row | Absent
  online,       \* navigator.onLine
  now,          \* Date.now(), also the remote server's NOW()
  syncPromise,  \* the module-level lock: 0 (null) or the slot of the pass
  pass,         \* the drain passes (the async body of processSyncQueue)
  ui,           \* the UI's saveForm / deleteForm call in progress
  fs,           \* the fullSync call in progress (initial or manual sync)
  lastSyncTime, \* module-level lastSyncTime (NoTime = null)
  lastError,    \* module-level lastError ("" = null)
  log,          \* the console line written by the latest step (NoLog: none)
  rt,           \* the realtime callback in progress
  channel,      \* the realtime events not yet delivered, oldest first
  configured    \* whether the build has the remote store's URL and key

vars == <<events, forms, queue, nextKey, remote, online, now,
          syncPromise, pass, ui, fs, lastSyncTime, lastError, log, rt, channel,
          configured>>

\* loadForm(formId): getFormLocally, then localFormToIntakeForm (Absent: the
\* call returns undefined).
loadForm(fm, formId) ==
  IF fm[formId] = Absent THEN Absent ELSE localFormToIntakeForm(fm[formId])

\* ------------------------------------------------------------ sync queue
MAX_RETRIES == 5
BACKOFF_MS == <<1000, 5000, 15000, 60000, 300000>>

SyncQueueItem(type, localId, payload, t) ==
  [type |-> type, localId |-> localId, payload |-> payload, timestamp |-> t,
   retryCount |-> 0, lastAttemptTime |-> NoTime, error |-> ""]

\* db.put / db.delete / db.get on the syncQueue store, by primary key.
QueueDelete(q, key) == {i \in q : i.id # key}
QueuePut(q, item) == QueueDelete(q, item.id) \cup {item}
QueueGet(q, key) ==
  IF \E i \in q : i.id = key THEN CHOOSE i \in q : i.id = key ELSE Absent

\* The by-timestamp index: ascending timestamp, ties in primary-key order.
ItemBefore(a, b) ==
  a.timestamp < b.timestamp \/ (a.timestamp = b.timestamp /\ a.id < b.id)

RECURSIVE byTimestamp(_)
byTimestamp(q) ==
  IF q = {} THEN <<>>
  ELSE LET first == CHOOSE a \in q : \A b \in q \ {a} : ItemBefore(a, b)
       IN  <<first>> \o byTimestamp(q \ {first})

getPendingSyncItems(q) == byTimestamp(q)

\* addToSyncQueue's filter: the entries the new item replaces.
IsDuplicate(i, item) == i.localId = item.localId /\ i.type = item.type

\* BACKOFF_MS[item.retryCount] || BACKOFF_MS[BACKOFF_MS.length - 1]
backoffTime(retryCount) ==
  IF retryCount + 1 <= Len(BACKOFF_MS) THEN BACKOFF_MS[retryCount + 1]
  ELSE BACKOFF_MS[Len(BACKOFF_MS)]

TooSoonOrDue(timeSinceLastAttempt, backoff) == timeSinceLastAttempt <= backoff
TooSoon(timeSinceLastAttempt, backoff) == timeSinceLastAttempt < backoff

MoreThanMaxRetries(item) == item.retryCount > MAX_RETRIES
MaxRetriesExceeded(item) == item.retryCount >= MAX_RETRIES

shouldRetryItem(item, t) ==
  IF MaxRetriesExceeded(item) THEN FALSE
  ELSE IF item.lastAttemptTime # NoTime
          /\ TooSoon(t - item.lastAttemptTime, backoffTime(item.retryCount))
    THEN FALSE
  ELSE TRUE

\* getUnsyncedCount: the pendingCount of the status feed, the number of forms
\* the by-sync-status index lists under synced = false.
getUnsyncedCount(fm) ==
  Cardinality({id \in Ids : fm[id] # Absent /\ ~fm[id].synced})

\* ---------------------------------------------------- processes at rest
NoLog == [msg |-> "", id |-> ""]
IdlePass == [pc |-> "idle", items |-> <<>>, i |-> 0, success |-> 0,
             failed |-> 0, err |-> "", held |-> Absent]
IdleUI == [pc |-> "idle", op |-> "", existing |-> Absent, local |-> Absent,
           item |-> Absent, duplicates |-> <<>>, k |-> 0]
IdleFS == [pc |-> "idle", p |-> 0, data |-> <<>>, i |-> 0, held |-> Absent]
IdleRT == [pc |-> "idle", row |-> Absent, held |-> Absent]

\* The application as it starts, whatever its configuration.
Booted ==
  /\ events = 0
  /\ forms = [id \in Ids |-> Absent]
  /\ queue = {}
  /\ nextKey = 1
  /\ remote = [id \in Ids |-> Absent]
  /\ online = FALSE
  /\ now = 1
  /\ syncPromise = 0
  /\ pass = [s \in PassSlots |-> IdlePass]
  /\ ui = IdleUI
  /\ fs = IdleFS
  /\ lastSyncTime = NoTime
  /\ lastError = ""
  /\ log = NoLog
  /\ rt = IdleRT
  /\ channel = <<>>

\* isSupabaseConfigured(): fixed when the application is built.
isSupabaseConfigured == configured

Init == Booted /\ configured = TRUE
InitEither == Booted /\ configured \in BOOLEAN

\* ------------------------------------------------------- processSyncQueue
\* The lock test at the head of processSyncQueue.
NeverHeld == FALSE
AlwaysHeld == TRUE
LockHeld == syncPromise # 0

\* Whether a processSyncQueue() call made now starts a new drain pass.
CanStart == ~LockHeld /\ \E s \in PassSlots : pass[s].pc = "idle"
StartsRegardless == CanStart
StartsPass == CanStart /\ online /\ isSupabaseConfigured

FreeSlot == CHOOSE s \in PassSlots :
              pass[s].pc = "idle" /\ \A r \in PassSlots : pass[r].pc = "idle" => s <= r

\* The promise a processSyncQueue() call returns: the pass in flight, the pass
\* it starts, or 0 for the already resolved {success: 0, failed: 0}.
PromiseOfCall == IF LockHeld THEN syncPromise ELSE IF StartsPass THEN FreeSlot ELSE 0

PassAfterCall ==
  IF StartsPass THEN [pass EXCEPT ![FreeSlot] = [IdlePass EXCEPT !.pc = "fetch"]]
  ELSE pass
LockAfterCall == IF StartsPass THEN FreeSlot ELSE syncPromise

\* processSyncQueue's own test for dropping an entry that is not retried.
DiscardAt(item) == item.retryCount >= 5

\* The loop skips (continue) every entry that is not to be retried and not to
\* be dropped: the index of the first entry from i on that is handled.
ScanToEnd(items, i, t) == Len(items) + 1
RECURSIVE Scan(_, _, _)
Scan(items, i, t) ==
  IF i > Len(items) THEN i
  ELSE IF ~shouldRetryItem(items[i], t) /\ ~DiscardAt(items[i])
    THEN Scan(items, i + 1, t)
  ELSE i

\* The continuation of pass s from entry i of its snapshot, with the counters
\* succ and fail and lg the console line of the step: the loop up to the next
\* awaited operation, or the finally block when the snapshot is exhausted
\* (release the lock, stamp lastSyncTime, resume the fullSync awaiting it).
Advance(s, items, i, succ, fail, lg) ==
  LET j == Scan(items, i, now) IN
  IF j > Len(items)
  THEN /\ pass' = [pass EXCEPT ![s] = IdlePass]
       /\ syncPromise' = 0
       /\ lastSyncTime' = IF succ > 0 THEN now ELSE lastSyncTime
       /\ lastError' = IF succ > 0 THEN "" ELSE lastError
       /\ fs' = IF fs.pc = "await_push" /\ fs.p = s
                THEN IF online /\ isSupabaseConfigured
                     THEN [fs EXCEPT !.pc = "pull_fetch", !.p = 0]
                     ELSE IdleFS
                ELSE fs
       /\ log' = lg
  ELSE LET item == items[j]
           err == IF item.type \in {"CREATE", "UPDATE"}
                  THEN validateForm(item.payload) ELSE ""
           at == [pc |-> "", items |-> items, i |-> j, success |-> succ,
                  failed |-> fail, err |-> "", held |-> Absent]
       IN  /\ IF ~shouldRetryItem(item, now)
              THEN /\ pass' = [pass EXCEPT ![s] = [at EXCEPT !.pc = "discard"]]
                   /\ log' = [msg |-> "Max retries exceeded", id |-> item.localId]
              ELSE IF err # ""
              THEN /\ pass' = [pass EXCEPT ![s] =
                                 [at EXCEPT !.pc = "inc_get", !.err = err]]
                   /\ log' = [msg |-> "Validation failed", id |-> item.localId]
              ELSE /\ pass' = [pass EXCEPT ![s] = [at EXCEPT !.pc = "send"]]
                   /\ log' = lg
           /\ UNCHANGED <<syncPromise, lastSyncTime, lastError, fs>>

\* await getPendingSyncItems(): the snapshot the pass works through.
PassFetch(s) ==
  /\ pass[s].pc = "fetch"
  /\ Advance(s, getPendingSyncItems(queue), 1, 0, 0, NoLog)
  /\ UNCHANGED <<forms, queue, nextKey, remote, online, now, ui>>
  /\ UNCHANGED <<events, rt, channel, configured>>

\* await removeSyncQueueItem(item.id) of an entry at the retry cap.
PassDiscard(s) ==
  LET p == pass[s] IN
  /\ p.pc = "discard"
  /\ queue' = QueueDelete(queue, p.items[p.i].id)
  /\ Advance(s, p.items, p.i + 1, p.success, p.failed,
             [msg |-> "Removing failed item after max retries",
              id |-> p.items[p.i].localId])
  /\ UNCHANGED <<forms, nextKey, remote, online, now, ui>>
  /\ UNCHANGED <<events, rt, channel, configured>>

\* The remote table after the request of a queue entry is applied at time t.
RemoteInsert(rm, form, t) == [rm EXCEPT ![form.id] = toRemoteRow(form, t)]
RemoteUpdate(rm, form, t) ==
  IF rm[form.id] = Absent THEN rm
  ELSE [rm EXCEPT ![form.id] = toRemoteRow(form, t)]
RemoteDelete(rm, id) == [rm EXCEPT ![id] = Absent]

\* Whether the remote store answers the request with an error: the network
\* failed (net = FALSE), or an insert met a row with the same primary key.
RemoteErrorIfMissing(item, net) ==
  \/ ~net
  \/ item.type = "CREATE" /\ remote[item.localId] # Absent
  \/ item.type = "DELETE" /\ remote[item.payload.remoteId] = Absent
RemoteError(item, net) ==
  \/ ~net
  \/ item.type = "CREATE" /\ remote[item.localId] # Absent

\* The insert / update / delete request of processSyncItem is answered.
PassSend(s) ==
  LET p == pass[s]
      item == p.items[p.i]
  IN
  /\ p.pc = "send"
  /\ \E net \in BOOLEAN :
       IF RemoteError(item, net)
       THEN /\ pass' = [pass EXCEPT ![s] = [p EXCEPT !.pc = "inc_get",
                           !.err = IF net THEN "duplicate key" ELSE "Failed to fetch"]]
            /\ log' = [msg |-> "Error processing item", id |-> item.localId]
            /\ UNCHANGED remote
       ELSE /\ remote' = CASE item.type = "CREATE" -> RemoteInsert(remote, item.payload, now)
                           [] item.type = "UPDATE" -> RemoteUpdate(remote, item.payload, now)
                           [] OTHER -> RemoteDelete(remote, item.payload.remoteId)
            /\ pass' = [pass EXCEPT ![s] = [p EXCEPT !.pc =
                           IF item.type = "DELETE" THEN "remove" ELSE "mark_get"]]
            /\ log' = NoLog
  /\ UNCHANGED <<forms, queue, nextKey, online, now, syncPromise,
                 ui, fs, lastSyncTime, lastError>>
  /\ UNCHANGED <<events, rt, channel, configured>>

\* markFormSynced(localId, remoteId): const form = await db.get('forms', localId)
LinkedCopy(form, remoteId) == [form EXCEPT !.remoteId = remoteId]
MislinkedCopy(form, remoteId) ==
  [form EXCEPT !.synced = TRUE,
               !.remoteId = CHOOSE id \in Ids : id # remoteId]
SyncedCopy(form, remoteId) == [form EXCEPT !.synced = TRUE, !.remoteId = remoteId]

PassMarkGet(s) ==
  LET p == pass[s]
      item == p.items[p.i]
      form == forms[item.localId]
  IN
  /\ p.pc = "mark_get"
  /\ pass' = [pass EXCEPT ![s] =
                IF form = Absent THEN [p EXCEPT !.pc = "remove"]
                ELSE [p EXCEPT !.pc = "mark_put",
                               !.held = SyncedCopy(form, item.payload.id)]]
  /\ UNCHANGED <<forms, queue, nextKey, remote, online, now,
                 syncPromise, ui, fs, lastSyncTime, lastError>>
  /\ log' = NoLog
  /\ UNCHANGED <<events, rt, channel, configured>>

\* markFormSynced: await db.put('forms', form)
PassMarkPut(s) ==
  LET p == pass[s] IN
  /\ p.pc = "mark_put"
  /\ forms' = [forms EXCEPT ![p.held.localId] = p.held]
  /\ pass' = [pass EXCEPT ![s] = [p EXCEPT !.pc = "remove", !.held = Absent]]
  /\ UNCHANGED <<queue, nextKey, remote, online, now,
                 syncPromise, ui, fs, lastSyncTime, lastError>>
  /\ log' = NoLog
  /\ UNCHANGED <<events, rt, channel, configured>>

\* processSyncItem returned true: await removeSyncQueueItem(item.id); success++
PassRemove(s) ==
  LET p == pass[s] IN
  /\ p.pc = "remove"
  /\ queue' = QueueDelete(queue, p.items[p.i].id)
  /\ Advance(s, p.items, p.i + 1, p.success + 1, p.failed, NoLog)
  /\ UNCHANGED <<forms, nextKey, remote, online, now, ui>>
  /\ UNCHANGED <<events, rt, channel, configured>>

\* incrementSyncItemRetry(id, error): const item = await db.get('syncQueue', id)
StampedCopy(item, error, t) ==
  [item EXCEPT !.lastAttemptTime = t, !.error = error]
UnrecordedCopy(item, error, t) ==
  [item EXCEPT !.retryCount = item.retryCount + 1, !.lastAttemptTime = t]
RetriedCopy(item, error, t) ==
  [item EXCEPT !.retryCount = item.retryCount + 1, !.lastAttemptTime = t,
               !.error = error]

PassIncGet(s) ==
  LET p == pass[s]
      item == QueueGet(queue, p.items[p.i].id)
  IN
  /\ p.pc = "inc_get"
  /\ IF item = Absent
     THEN Advance(s, p.items, p.i + 1, p.success, p.failed + 1, NoLog)
     ELSE /\ pass' = [pass EXCEPT ![s] =
                        [p EXCEPT !.pc = "inc_put",
                                  !.held = RetriedCopy(item, p.err, now)]]
          /\ UNCHANGED <<syncPromise, fs, lastSyncTime, lastError>>
          /\ log' = NoLog
  /\ UNCHANGED <<forms, queue, nextKey, remote, online, now, ui>>
  /\ UNCHANGED <<events, rt, channel, configured>>

\* incrementSyncItemRetry: await db.put('syncQueue', item); processSyncItem
\* returns false; failed++
PassIncPut(s) ==
  LET p == pass[s] IN
  /\ p.pc = "inc_put"
  /\ queue' = QueuePut(queue, p.held)
  /\ Advance(s, p.items, p.i + 1, p.success, p.failed + 1, NoLog)
  /\ UNCHANGED <<forms, nextKey, remote, online, now, ui>>
  /\ UNCHANGED <<events, rt, channel, configured>>

\* ------------------------------------------------- saveForm / deleteForm
\* The saveForm / deleteForm call returns:
\* if (navigator.onLine && isSupabaseConfigured()) processSyncQueue()
Return ==
  /\ ui' = IdleUI
  /\ pass' = IF online /\ isSupabaseConfigured THEN PassAfterCall ELSE pass
  /\ syncPromise' = IF online /\ isSupabaseConfigured THEN LockAfterCall
                  ELSE syncPromise

\* What saveFormLocally and deleteFormLocally read of the form db.get returned.
SeenUnlinked(existing) ==
  IF existing = Absent THEN Absent
  ELSE [localId |-> existing.localId, remoteId |-> NoRemoteId]
Seen(existing) ==
  IF existing = Absent THEN Absent
  ELSE [localId |-> existing.localId, remoteId |-> existing.remoteId]

\* saveForm(form) -> saveFormLocally: const existing = await db.get('forms', form.id)
SaveGet(form) ==
  LET existing == forms[form.id] IN
  /\ ui.pc = "idle"
  /\ ui' = [IdleUI EXCEPT !.pc = "save_put", !.op = "save",
               !.existing = Seen(existing),
               !.local = LocalForm(form,
                                   IF existing = Absent THEN NoRemoteId
                                   ELSE existing.remoteId,
                                   FALSE, now)]
  /\ UNCHANGED <<forms, queue, nextKey, remote, online, now,
                 syncPromise, pass, fs, lastSyncTime, lastError>>
  /\ log' = NoLog
  /\ UNCHANGED <<rt, channel, configured>>

\* saveFormLocally: await db.put('forms', localForm), then addToSyncQueue(...)
\* is called and awaits db.getAllFromIndex('syncQueue', 'by-timestamp')
SavePut ==
  /\ ui.pc = "save_put"
  /\ forms' = [forms EXCEPT ![ui.local.localId] = ui.local]
  /\ ui' = [ui EXCEPT !.pc = "enq_get",
               !.item = SyncQueueItem(IF ui.existing # Absent THEN "UPDATE"
                                      ELSE "CREATE",
                                      ui.local.localId, ui.local.form, now)]
  /\ UNCHANGED <<queue, nextKey, remote, online, now,
                 syncPromise, pass, fs, lastSyncTime, lastError>>
  /\ log' = NoLog
  /\ UNCHANGED <<events, rt, channel, configured>>

\* deleteForm(id) -> deleteFormLocally: const existing = await db.get('forms', id)
DeleteGet(id) ==
  LET existing == forms[id] IN
  /\ ui.pc = "idle"
  /\ IF existing = Absent
     THEN Return
     ELSE /\ ui' = [IdleUI EXCEPT !.pc = "del_delete", !.op = "delete",
                       !.existing = Seen(existing)]
          /\ UNCHANGED <<pass, syncPromise>>
  /\ UNCHANGED <<forms, queue, nextKey, remote, online, now,
                 fs, lastSyncTime, lastError>>
  /\ log' = NoLog
  /\ UNCHANGED <<rt, channel, configured>>

\* deleteFormLocally: await db.delete('forms', formId); a DELETE entry is
\* queued only if (existing.remoteId)
DeleteDelete ==
  LET existing == ui.existing IN
  /\ ui.pc = "del_delete"
  /\ forms' = [forms EXCEPT ![existing.localId] = Absent]
  /\ IF ~Falsy(existing.remoteId)
     THEN /\ ui' = [ui EXCEPT !.pc = "enq_get",
                       !.item = SyncQueueItem("DELETE", existing.localId,
                                   [remoteId |-> existing.remoteId], now)]
          /\ UNCHANGED <<pass, syncPromise>>
     ELSE Return
  /\ UNCHANGED <<queue, nextKey, remote, online, now,
                 fs, lastSyncTime, lastError>>
  /\ log' = NoLog
  /\ UNCHANGED <<events, rt, channel, configured>>

\* addToSyncQueue: existingItems fetched; duplicates = the entries of the same
\* record and type, in index order
EnqGet ==
  LET duplicates == SelectSeq(byTimestamp(queue), LAMBDA i : IsDuplicate(i, ui.item)) IN
  /\ ui.pc = "enq_get"
  /\ ui' = [ui EXCEPT !.pc = IF duplicates = <<>> THEN "enq_add" ELSE "enq_del",
                      !.duplicates = duplicates, !.k = 1]
  /\ UNCHANGED <<forms, queue, nextKey, remote, online, now,
                 syncPromise, pass, fs, lastSyncTime, lastError>>
  /\ log' = NoLog
  /\ UNCHANGED <<events, rt, channel, configured>>

\* addToSyncQueue: for (const dup of duplicates) await db.delete('syncQueue', dup.id)
EnqDel ==
  /\ ui.pc = "enq_del"
  /\ queue' = QueueDelete(queue, ui.duplicates[ui.k].id)
  /\ ui' = [ui EXCEPT !.pc = IF ui.k = Len(ui.duplicates) THEN "enq_add" ELSE "enq_del",
                      !.k = ui.k + 1]
  /\ UNCHANGED <<forms, nextKey, remote, online, now,
                 syncPromise, pass, fs, lastSyncTime, lastError>>
  /\ log' = NoLog
  /\ UNCHANGED <<events, rt, channel, configured>>

\* addToSyncQueue: await db.add('syncQueue', item); saveForm / deleteForm return
EnqAdd ==
  /\ ui.pc = "enq_add"
  /\ queue' = queue \cup {[id |-> nextKey] @@ ui.item}
  /\ nextKey' = nextKey + 1
  /\ Return
  /\ UNCHANGED <<forms, remote, online, now, fs, lastSyncTime,
                 lastError>>
  /\ log' = NoLog
  /\ UNCHANGED <<events, rt, channel, configured>>

\* --------------------------------------------------- factoryResetDatabase
\* factoryResetDatabase() -> clearAllFormsLocally: await db.clear('forms')
\* is pending.
ClearCall ==
  /\ ui.pc = "idle"
  /\ ui' = [IdleUI EXCEPT !.pc = "clear_forms", !.op = "clear"]
  /\ UNCHANGED <<forms, queue, nextKey, remote, online, now,
                 syncPromise, pass, fs, lastSyncTime, lastError>>
  /\ log' = NoLog
  /\ UNCHANGED <<rt, channel, configured>>

\* clearAllFormsLocally: db.clear('forms') done; await db.clear('syncQueue')
ClearForms ==
  /\ ui.pc = "clear_forms"
  /\ forms' = [id \in Ids |-> Absent]
  /\ ui' = [ui EXCEPT !.pc = "clear_queue"]
  /\ UNCHANGED <<queue, nextKey, remote, online, now,
                 syncPromise, pass, fs, lastSyncTime, lastError>>
  /\ log' = NoLog
  /\ UNCHANGED <<events, rt, channel, configured>>

\* clearAllFormsLocally: db.clear('syncQueue') done (the key generator is not
\* reset); factoryResetDatabase goes on to clear the remote table if
\* (navigator.onLine), and starts no drain pass.
ClearQueue ==
  /\ ui.pc = "clear_queue"
  /\ queue' = {}
  /\ ui' = IF online /\ isSupabaseConfigured
           THEN [ui EXCEPT !.pc = "clear_remote"] ELSE IdleUI
  /\ UNCHANGED <<forms, nextKey, remote, online, now,
                 syncPromise, pass, fs, lastSyncTime, lastError>>
  /\ log' = NoLog
  /\ UNCHANGED <<events, rt, channel, configured>>

\* await supabase.from('forms').delete().neq('id', ''): answered, with every
\* row deleted or with an error.
ClearRemote ==
  /\ ui.pc = "clear_remote"
  /\ \E ok \in BOOLEAN :
       remote' = IF ok THEN [id \in Ids |-> Absent] ELSE remote
  /\ ui' = IdleUI
  /\ UNCHANGED <<forms, queue, nextKey, online, now,
                 syncPromise, pass, fs, lastSyncTime, lastError>>
  /\ log' = NoLog
  /\ UNCHANGED <<events, rt, channel, configured>>

\* ------------------------------------------------ fullSync / pullFromRemote
\* App's initial sync and handleManualSync: both call fullSync() only when
\* navigator.onLine, one at a time (isSyncing); fullSync awaits
\* processSyncQueue() first.
FullSyncCall ==
  /\ fs.pc = "idle"
  /\ online
  /\ LockHeld \/ StartsPass
  /\ fs' = [IdleFS EXCEPT !.pc = "await_push", !.p = PromiseOfCall]
  /\ pass' = PassAfterCall
  /\ syncPromise' = LockAfterCall
  /\ UNCHANGED <<forms, queue, nextKey, remote, online, now, ui,
                 lastSyncTime, lastError>>
  /\ log' = NoLog
  /\ UNCHANGED <<rt, channel, configured>>

\* .order('updated_at', {ascending: false}): the rows, newest first.
Pos(id) == CHOOSE k \in 1..Len(IdOrder) : IdOrder[k] = id
RowBefore(a, b) ==
  \/ a.updated_at > b.updated_at
  \/ a.updated_at = b.updated_at /\ Pos(a.id) < Pos(b.id)

RECURSIVE newestFirst(_)
newestFirst(rows) ==
  IF rows = {} THEN <<>>
  ELSE LET first == CHOOSE a \in rows : \A b \in rows \ {a} : RowBefore(a, b)
       IN  <<first>> \o newestFirst(rows \ {first})

SelectAll(rm) == newestFirst({rm[id] : id \in {k \in Ids : rm[k] # Absent}})

\* The end of pullFromRemote's loop.
PullDone ==
  /\ fs' = IdleFS
  /\ lastSyncTime' = now
  /\ lastError' = ""

\* pullFromRemote: the select is answered, with the rows or with an error.
PullFetch ==
  /\ fs.pc = "pull_fetch"
  /\ \E net \in BOOLEAN :
       IF ~net
       THEN /\ fs' = IdleFS
            /\ lastError' = "Failed to fetch"
            /\ UNCHANGED lastSyncTime
            /\ log' = [msg |-> "Pull from remote failed", id |-> ""]
       ELSE IF SelectAll(remote) = <<>>
       THEN PullDone /\ log' = NoLog
       ELSE /\ fs' = [fs EXCEPT !.pc = "merge_get", !.data = SelectAll(remote), !.i = 1]
            /\ UNCHANGED <<lastSyncTime, lastError>>
            /\ log' = NoLog
  /\ UNCHANGED <<forms, queue, nextKey, remote, online, now,
                 syncPromise, pass, ui>>
  /\ UNCHANGED <<events, rt, channel, configured>>

\* The next row of the pull, or its end.
NextRow ==
  IF fs.i = Len(fs.data) THEN PullDone
  ELSE /\ fs' = [fs EXCEPT !.pc = "merge_get", !.i = fs.i + 1, !.held = Absent]
       /\ UNCHANGED <<lastSyncTime, lastError>>

\* allForms.find(f => f.remoteId === remoteForm.id || f.localId === remoteForm.id)
RECURSIVE FindFrom(_, _, _)
FindFrom(fm, rid, k) ==
  IF k > Len(IdOrder) THEN Absent
  ELSE LET f == fm[IdOrder[k]] IN
       IF f # Absent /\ (f.remoteId = rid \/ f.localId = rid) THEN f
       ELSE FindFrom(fm, rid, k + 1)
FindExisting(fm, rid) == FindFrom(fm, rid, 1)

\* The conflict test of updateFormFromRemote: keep the local version.
NotOlder(localTime, remoteTime) == localTime >= remoteTime
LocalIsNewer(localTime, remoteTime) == localTime > remoteTime
KeepsLocal(existing, remoteForm) ==
  /\ existing # Absent
  /\ ~existing.synced
  /\ LocalIsNewer(existing.localUpdatedAt, remoteForm.updatedAt)

\* The LocalForm updateFormFromRemote writes.
MergedUnsynced(existing, remoteForm, t) ==
  [form |-> remoteForm,
   localId |-> IF existing = Absent THEN remoteForm.id ELSE existing.localId,
   remoteId |-> remoteForm.id, synced |-> FALSE, localUpdatedAt |-> t]
MergedForm(existing, remoteForm, t) ==
  [form |-> remoteForm,
   localId |-> IF existing = Absent THEN remoteForm.id ELSE existing.localId,
   remoteId |-> remoteForm.id, synced |-> TRUE, localUpdatedAt |-> t]

\* updateFormFromRemote(mapRemoteToLocal(row)): const allForms = await db.getAll('forms')
MergeGet ==
  LET remoteForm == mapRemoteToLocal(fs.data[fs.i])
      existing == FindExisting(forms, remoteForm.id)
  IN
  /\ fs.pc = "merge_get"
  /\ IF KeepsLocal(existing, remoteForm)
     THEN /\ log' = [msg |-> "Local version newer, keeping local", id |-> remoteForm.id]
          /\ NextRow
     ELSE /\ fs' = [fs EXCEPT !.pc = "merge_put",
                       !.held = MergedForm(existing, remoteForm, now)]
          /\ UNCHANGED <<lastSyncTime, lastError>>
          /\ log' = NoLog
  /\ UNCHANGED <<forms, queue, nextKey, remote, online, now,
                 syncPromise, pass, ui>>
  /\ UNCHANGED <<events, rt, channel, configured>>

\* updateFormFromRemote: await db.put('forms', localForm)
MergePut ==
  /\ fs.pc = "merge_put"
  /\ forms' = [forms EXCEPT ![fs.held.localId] = fs.held]
  /\ NextRow
  /\ UNCHANGED <<queue, nextKey, remote, online, now,
                 syncPromise, pass, ui>>
  /\ log' = NoLog
  /\ UNCHANGED <<events, rt, channel, configured>>

\* ------------------------------------------------------------ environment
\* window 'online' event: handleOnline calls processSyncQueue()
GoOnline ==
  /\ ~online
  /\ online' = TRUE
  /\ pass' = IF CanStart /\ isSupabaseConfigured
             THEN [pass EXCEPT ![FreeSlot] = [IdlePass EXCEPT !.pc = "fetch"]]
             ELSE pass
  /\ syncPromise' = IF CanStart /\ isSupabaseConfigured THEN FreeSlot
                  ELSE syncPromise
  /\ UNCHANGED <<forms, queue, nextKey, remote, now, ui, fs,
                 lastSyncTime, lastError>>
  /\ log' = NoLog
  /\ UNCHANGED <<rt, channel, configured>>

GoOffline ==
  /\ online
  /\ online' = FALSE
  /\ UNCHANGED <<forms, queue, nextKey, remote, now, syncPromise,
                 pass, ui, fs, lastSyncTime, lastError>>
  /\ log' = NoLog
  /\ UNCHANGED <<rt, channel, configured>>

\* Another device writes a row of the remote table.
RemoteInputs(id, t) ==
  { IntakeForm(id, "new", "Jane Doe", Undefined, <<"Lamp (remote edit)">>, SigDate, t) }

OtherDeviceWrite(id) ==
  /\ \E form \in RemoteInputs(id, now) :
       remote' = [remote EXCEPT ![id] = toRemoteRow(form, now)]
  /\ UNCHANGED <<forms, queue, nextKey, online, now, syncPromise, pass, ui, fs,
                 lastSyncTime, lastError>>
  /\ log' = NoLog
  /\ UNCHANGED <<rt, channel, configured>>

Tick ==
  /\ now' = now + 1
  /\ UNCHANGED <<forms, queue, nextKey, remote, online,
                 syncPromise, pass, ui, fs, lastSyncTime, lastError>>
  /\ log' = NoLog
  /\ UNCHANGED <<rt, channel, configured>>

\* The instants around the end of a backoff window: the last millisecond in it
\* and the first one after it.
Deadline(item) == item.lastAttemptTime + backoffTime(item.retryCount)
Waiting(item) == item.lastAttemptTime # NoTime /\ ~MaxRetriesExceeded(item)

Elapse ==
  /\ \E item \in {i \in queue : Waiting(i)} :
       \E t \in {Deadline(item) - 1, Deadline(item)} :
         /\ t > now
         /\ now' = t
  /\ UNCHANGED <<forms, queue, nextKey, remote, online,
                 syncPromise, pass, ui, fs, lastSyncTime, lastError>>
  /\ log' = NoLog
  /\ UNCHANGED <<rt, channel, configured>>

\* A processSyncQueue() call that starts a drain pass (any other call returns
\* the pass in flight, or at once).
Trigger ==
  /\ StartsPass
  /\ pass' = PassAfterCall
  /\ syncPromise' = LockAfterCall
  /\ UNCHANGED <<forms, queue, nextKey, remote, online, now, ui, fs,
                 lastSyncTime, lastError>>
  /\ log' = NoLog
  /\ UNCHANGED <<events, rt, channel, configured>>

\* A timer whose tick only pulls.
PullOnlyTick ==
  /\ fs.pc = "idle"
  /\ online
  /\ fs' = [IdleFS EXCEPT !.pc = "pull_fetch"]
  /\ UNCHANGED <<forms, queue, nextKey, remote, online, now, ui, syncPromise,
                 pass, lastSyncTime, lastError>>
  /\ log' = NoLog
  /\ UNCHANGED <<events, rt, channel, configured>>

\* The sync timer Layout starts with startPeriodicSync(30000): on each tick,
\* if the device is online, the same full sync as App's (one fullSync at a
\* time in the model: a tick finds the previous full sync finished).
PeriodicSyncTick ==
  /\ FullSyncCall
  /\ UNCHANGED events

\* processSyncQueue() called by any code, in any state: it returns the pass
\* in flight, or starts one, or returns {success: 0, failed: 0} at once.
processSyncQueueCall ==
  /\ pass' = PassAfterCall
  /\ syncPromise' = LockAfterCall
  /\ UNCHANGED <<forms, queue, nextKey, remote, online, now, ui, fs,
                 lastSyncTime, lastError>>
  /\ log' = NoLog
  /\ UNCHANGED <<rt, channel, configured>>

\* The process stops (tab closed, crash) at any point and the application is
\* started again: the two object stores and the remote table are as they
\* were, every handler in progress and the module state are gone, and App's
\* mount effect runs setupOnlineSync and, if (navigator.onLine), fullSync().
Restarts == online /\ isSupabaseConfigured
Crash ==
  /\ ui' = IdleUI
  /\ rt' = IdleRT
  /\ channel' = <<>>
  /\ lastSyncTime' = NoTime
  /\ lastError' = ""
  /\ pass' = [s \in PassSlots |->
                IF Restarts /\ s = 1 THEN [IdlePass EXCEPT !.pc = "fetch"]
                ELSE IdlePass]
  /\ syncPromise' = IF Restarts THEN 1 ELSE 0
  /\ fs' = IF Restarts THEN [IdleFS EXCEPT !.pc = "await_push", !.p = 1]
           ELSE IdleFS
  /\ UNCHANGED <<forms, queue, nextKey, remote, online, now>>
  /\ log' = NoLog
  /\ UNCHANGED configured

\* --------------------------------------------- subscribeToRealtimeUpdates
\* The form the UI saves when the consigner has signed: saveCurrentForm('signed').
SignedForm(id) == [ValidForm(id) EXCEPT !.status = "signed"]

\* payload.new of a delete event: an object with no column set.
EmptyRow ==
  [id |-> Undefined, consigner_type |-> Undefined, consigner_name |-> Undefined,
   consigner_number |-> Undefined, status |-> Undefined, items |-> Undefined,
   updated_at |-> NoTime]

\* A postgres_changes event of the forms table.
RealtimeEvent(eventType, new, oldId) ==
  [eventType |-> eventType, new |-> new, old |-> [id |-> oldId]]

\* The channel carries the change to this device when it is connected.
Broadcast(event) == IF online THEN Append(channel, event) ELSE channel

\* Another device inserts or updates a row of the remote table; the change is
\* broadcast on the realtime channel.
OtherDeviceUpsert(id) ==
  /\ \E form \in RemoteInputs(id, now) :
       LET row == toRemoteRow(form, now) IN
       /\ remote' = [remote EXCEPT ![id] = row]
       /\ channel' = Broadcast(RealtimeEvent(IF remote[id] = Absent THEN "INSERT"
                                             ELSE "UPDATE", row, id))
  /\ UNCHANGED <<forms, queue, nextKey, online, now, syncPromise, pass, ui, fs,
                 lastSyncTime, lastError, rt, configured>>
  /\ log' = NoLog

\* Another device deletes a row of the remote table.
OtherDeviceDelete(id) ==
  /\ remote[id] # Absent
  /\ remote' = [remote EXCEPT ![id] = Absent]
  /\ channel' = Broadcast(RealtimeEvent("DELETE", EmptyRow, id))
  /\ UNCHANGED <<forms, queue, nextKey, online, now, syncPromise, pass, ui, fs,
                 lastSyncTime, lastError, rt, configured>>
  /\ log' = NoLog

\* if (payload.eventType === 'INSERT' || payload.eventType === 'UPDATE')
AppliesAlways(eventType) == TRUE
Applies(eventType) == eventType = "INSERT" \/ eventType = "UPDATE"

\* The realtime callback is called with the oldest undelivered event: an insert
\* or update starts updateFormFromRemote(mapRemoteToLocal(payload.new)); for
\* any other event the callback only calls onUpdate(), which makes the UI
\* reload its list.
RtDeliver ==
  LET payload == Head(channel) IN
  /\ rt.pc = "idle"
  /\ online /\ isSupabaseConfigured
  /\ channel # <<>>
  /\ channel' = Tail(channel)
  /\ rt' = IF Applies(payload.eventType)
           THEN [IdleRT EXCEPT !.pc = "merge_get", !.row = payload.new]
           ELSE IdleRT
  /\ log' = [msg |-> "Realtime update", id |-> payload.eventType]
  /\ UNCHANGED <<forms, queue, nextKey, remote, online, now, syncPromise,
                 pass, ui, fs, lastSyncTime, lastError>>
  /\ UNCHANGED <<events, configured>>

\* updateFormFromRemote in the realtime callback: await db.getAll('forms')
RtMergeGet ==
  LET remoteForm == mapRemoteToLocal(rt.row)
      existing == FindExisting(forms, remoteForm.id)
  IN
  /\ rt.pc = "merge_get"
  /\ IF KeepsLocal(existing, remoteForm)
     THEN /\ rt' = IdleRT
          /\ log' = [msg |-> "Local version newer, keeping local", id |-> remoteForm.id]
     ELSE /\ rt' = [rt EXCEPT !.pc = "merge_put",
                       !.held = MergedForm(existing, remoteForm, now)]
          /\ log' = NoLog
  /\ UNCHANGED <<forms, queue, nextKey, remote, online, now, syncPromise,
                 pass, ui, fs, lastSyncTime, lastError, channel>>
  /\ UNCHANGED <<events, configured>>

\* updateFormFromRemote in the realtime callback: await db.put('forms', localForm)
RtMergePut ==
  /\ rt.pc = "merge_put"
  /\ forms' = [forms EXCEPT ![rt.held.localId] = rt.held]
  /\ rt' = IdleRT
  /\ UNCHANGED <<queue, nextKey, remote, online, now, syncPromise,
                 pass, ui, fs, lastSyncTime, lastError, channel>>
  /\ log' = NoLog
  /\ UNCHANGED <<events, configured>>

\* ---------------------------------------------------------- specifications
Event(max) == events < max /\ events' = events + 1

UiStep ==
  \/ SavePut
  \/ DeleteDelete
  \/ EnqGet
  \/ EnqDel
  \/ EnqAdd

\* A step of a drain pass whose entries are below the retry cap.
PassStep(s) ==
  \/ PassFetch(s)
  \/ PassSend(s)
  \/ PassMarkGet(s)
  \/ PassMarkPut(s)
  \/ PassRemove(s)
  \/ PassIncGet(s)
  \/ PassIncPut(s)

PullStep ==
  \/ PullFetch
  \/ MergeGet
  \/ MergePut

\* Spec: the whole engine on one record: save, delete, push, fullSync with its
\* pull and merge, another device writing the remote row, a clock of 1 ms
\* ticks.  An entry reaches the retry cap only after five attempts that are
\* at least a second apart, which this clock does not reach: PassDiscard is
\* an action of SpecBackoff.
Next ==
  \/ Event(MaxEvents) /\ \E form \in FormInputs("f1") : SaveGet(form)
  \/ Event(MaxEvents) /\ DeleteGet("f1")
  \/ Event(MaxEvents) /\ FullSyncCall
  \/ Event(MaxEvents) /\ GoOnline
  \/ Event(MaxEvents) /\ GoOffline
  \/ Event(MaxEvents) /\ OtherDeviceWrite("f1")
  \/ Event(MaxEvents) /\ Tick
  \/ UiStep
  \/ \E s \in PassSlots : PassStep(s)
  \/ PullStep

Spec == Init /\ [][Next]_vars

\* SpecPush: save, delete and push on two records, with no pull.
NextPush ==
  \/ Event(MaxEventsP) /\ \E id \in Ids : \E form \in FormInputs(id) : SaveGet(form)
  \/ Event(MaxEventsP) /\ \E id \in Ids : DeleteGet(id)
  \/ Event(MaxEventsP) /\ GoOnline
  \/ Event(MaxEventsP) /\ GoOffline
  \/ UiStep
  \/ \E s \in PassSlots : PassStep(s)

SpecPush == Init /\ [][NextPush]_vars

\* SpecBackoff: the retries of one record's entries, the clock moving from one
\* backoff deadline to the next.
NextBackoff ==
  \/ Event(MaxEventsB) /\ SaveGet(ValidForm("f1"))
  \/ UNCHANGED events /\ GoOnline
  \/ UNCHANGED events /\ GoOffline
  \/ UNCHANGED events /\ Elapse
  \/ SavePut
  \/ EnqGet
  \/ EnqAdd
  \/ \E s \in PassSlots : PassStep(s)
  \/ \E s \in PassSlots : PassDiscard(s)

SpecBackoff == Init /\ [][NextBackoff]_vars

\* SpecRealtime: one record that this device saves (as a draft, or signed) and
\* pushes while another device changes its remote row and the realtime
\* channel delivers those changes.
NextRealtime ==
  \/ Event(MaxEventsR) /\ \E form \in {ValidForm("f1"), SignedForm("f1")} : SaveGet(form)
  \/ Event(MaxEventsR) /\ GoOnline
  \/ Event(MaxEventsR) /\ GoOffline
  \/ Event(MaxEventsR) /\ OtherDeviceUpsert("f1")
  \/ Event(MaxEventsR) /\ OtherDeviceDelete("f1")
  \/ Event(MaxEventsR) /\ Tick
  \/ SavePut
  \/ EnqGet
  \/ EnqDel
  \/ EnqAdd
  \/ \E s \in PassSlots : PassStep(s)
  \/ RtDeliver
  \/ RtMergeGet
  \/ RtMergePut

SpecRealtime == Init /\ [][NextRealtime]_vars

\* SpecSolo: the whole engine on one record with this device the only writer
\* of the remote table.
NextSolo ==
  \/ Event(MaxEvents) /\ \E form \in FormInputs("f1") : SaveGet(form)
  \/ Event(MaxEvents) /\ DeleteGet("f1")
  \/ Event(MaxEvents) /\ FullSyncCall
  \/ Event(MaxEvents) /\ GoOnline
  \/ Event(MaxEvents) /\ GoOffline
  \/ Event(MaxEvents) /\ Tick
  \/ UiStep
  \/ \E s \in PassSlots : PassStep(s)
  \/ PullStep

SpecSolo == Init /\ [][NextSolo]_vars

\* SpecPull: push, fullSync with its pull and merge on two records, one saved
\* on this device and both written by another device.
NextPull ==
  \/ Event(MaxEventsU) /\ SaveGet(ValidForm("f1"))
  \/ Event(MaxEventsU) /\ FullSyncCall
  \/ Event(MaxEventsU) /\ GoOnline
  \/ Event(MaxEventsU) /\ GoOffline
  \/ Event(MaxEventsU) /\ \E id \in Ids : OtherDeviceWrite(id)
  \/ Event(MaxEventsU) /\ Tick
  \/ SavePut
  \/ EnqGet
  \/ EnqDel
  \/ EnqAdd
  \/ \E s \in PassSlots : PassStep(s)
  \/ PullStep

SpecPull == Init /\ [][NextPull]_vars

\* SpecCodec: save and push of one record over every form of CodecInputs.
NextCodec ==
  \/ Event(MaxEventsK) /\ \E form \in CodecInputs("f1") : SaveGet(form)
  \/ Event(MaxEventsK) /\ GoOnline
  \/ Event(MaxEventsK) /\ GoOffline
  \/ SavePut
  \/ EnqGet
  \/ EnqDel
  \/ EnqAdd
  \/ \E s \in PassSlots : PassStep(s)

SpecCodec == Init /\ [][NextCodec]_vars

\* SpecValidate: save and push of one record, valid or not.
NextValidate ==
  \/ Event(MaxEventsV) /\ \E form \in InvalidInputs("f1") \cup {ValidForm("f1")} : SaveGet(form)
  \/ Event(MaxEventsV) /\ GoOnline
  \/ Event(MaxEventsV) /\ GoOffline
  \/ SavePut
  \/ EnqGet
  \/ EnqDel
  \/ EnqAdd
  \/ \E s \in PassSlots : PassStep(s)

SpecValidate == Init /\ [][NextValidate]_vars

\* SpecGuard: save, delete and push of one record with processSyncQueue called
\* at any time, in a build with the remote store configured or not.
NextGuard ==
  \/ Event(MaxEventsG) /\ SaveGet(ValidForm("f1"))
  \/ Event(MaxEventsG) /\ DeleteGet("f1")
  \/ Event(MaxEventsG) /\ GoOnline
  \/ Event(MaxEventsG) /\ GoOffline
  \/ Event(MaxEventsG) /\ processSyncQueueCall
  \/ UiStep
  \/ \E s \in PassSlots : PassStep(s)

SpecGuard == InitEither /\ [][NextGuard]_vars

\* SpecCrash: save, push and pull of one record, the process stopping and
\* starting again at any point.
NextCrash ==
  \/ Event(MaxEventsX) /\ \E form \in FormInputs("f1") : SaveGet(form)
  \/ Event(MaxEventsX) /\ Crash
  \/ Event(MaxEventsX) /\ GoOnline
  \/ Event(MaxEventsX) /\ GoOffline
  \/ SavePut
  \/ EnqGet
  \/ EnqDel
  \/ EnqAdd
  \/ \E s \in PassSlots : PassStep(s)
  \/ PullStep

SpecCrash == Init /\ [][NextCrash]_vars

\* SpecDelete: save, delete and push of one record whose remote row another
\* device deletes.
NextDelete ==
  \/ Event(MaxEventsD) /\ SaveGet(ValidForm("f1"))
  \/ Event(MaxEventsD) /\ DeleteGet("f1")
  \/ Event(MaxEventsD) /\ GoOnline
  \/ Event(MaxEventsD) /\ GoOffline
  \/ Event(MaxEventsD) /\ OtherDeviceDelete("f1")
  \/ UiStep
  \/ \E s \in PassSlots : PassStep(s)
  \/ RtDeliver

SpecDelete == Init /\ [][NextDelete]_vars

\* SpecReset: save and push on two records, and the factory reset.
NextReset ==
  \/ Event(MaxEventsC) /\ \E id \in Ids : SaveGet(ValidForm(id))
  \/ Event(MaxEventsC) /\ ClearCall
  \/ Event(MaxEventsC) /\ GoOnline
  \/ Event(MaxEventsC) /\ GoOffline
  \/ SavePut
  \/ EnqGet
  \/ EnqDel
  \/ EnqAdd
  \/ ClearForms
  \/ ClearQueue
  \/ ClearRemote
  \/ \E s \in PassSlots : PassStep(s)

SpecReset == Init /\ [][NextReset]_vars

\* SpecLive: save, delete and push on one record, with processSyncQueue called
\* again and again; every handler that can take a step eventually takes one.
NextLive ==
  \/ Event(MaxEventsL) /\ \E form \in FormInputs("f1") : SaveGet(form)
  \/ Event(MaxEventsL) /\ DeleteGet("f1")
  \/ Event(MaxEventsL) /\ GoOnline
  \/ Event(MaxEventsL) /\ GoOffline
  \/ Trigger
  \/ UiStep
  \/ \E s \in PassSlots : PassStep(s)

SpecLive ==
  /\ Init
  /\ [][NextLive]_vars
  /\ WF_vars(Trigger)
  /\ WF_vars(UiStep)
  /\ \A s \in PassSlots : WF_vars(PassStep(s))

\* SpecTimer: save, delete, push and pull on one record with the sync timer
\* running: the timer keeps ticking and every handler that can take a step
\* eventually takes one.
NextTimer ==
  \/ Event(MaxEventsT) /\ SaveGet(ValidForm("f1"))
  \/ Event(MaxEventsT) /\ DeleteGet("f1")
  \/ Event(MaxEventsT) /\ GoOnline
  \/ Event(MaxEventsT) /\ GoOffline
  \/ PeriodicSyncTick
  \/ UiStep
  \/ \E s \in PassSlots : PassStep(s)
  \/ PullStep

SpecTimer ==
  /\ Init
  /\ [][NextTimer]_vars
  /\ WF_vars(PeriodicSyncTick)
  /\ WF_vars(UiStep)
  /\ WF_vars(PullStep)
  /\ \A s \in PassSlots : WF_vars(PassStep(s))

\* ================================================================== claims
\* ---- C1
\* The remote record a merge in progress is applied to, and the LocalRecord
\* its identifier matches.
MergeRemote == mapRemoteToLocal(fs.data[fs.i])
MergeLocal == FindExisting(forms, MergeRemote.id)
MergeDecides == fs.pc = "merge_get" /\ fs' # fs
MergeWrites == fs.pc = "merge_put" /\ fs' # fs

\* C1: updateFormFromRemote applied to a remote record whose identifier
\* matches a LocalRecord with synced = false: when the local mutation time is
\* strictly greater than the remote updatedAt, nothing is written (the stored
\* payload and sync status stay as they are); when the remote updatedAt is
\* greater than or equal to it, the record written is the remote payload,
\* marked synced, under the local record's key.
C1_ConflictRule ==
  [][ /\ (MergeDecides /\ MergeLocal # Absent /\ ~MergeLocal.synced) =>
           IF MergeLocal.localUpdatedAt > MergeRemote.updatedAt
           THEN forms' = forms /\ fs'.pc # "merge_put"
           ELSE /\ fs'.pc = "merge_put"
                /\ fs'.held.localId = MergeLocal.localId
                /\ fs'.held.form = MergeRemote
                /\ fs'.held.synced
      /\ MergeWrites => forms'[fs.held.localId] = fs.held
    ]_vars

\* C1 witness: a merge has met an unsynced LocalRecord that is not newer than
\* the remote record and is about to write the remote payload over it.
C1_RemoteWinsReached ==
  /\ fs.pc = "merge_put"
  /\ forms[fs.held.localId] # Absent
  /\ ~forms[fs.held.localId].synced
  /\ forms[fs.held.localId].localUpdatedAt <= fs.held.form.updatedAt
  /\ forms[fs.held.localId].form.items # fs.held.form.items

\* The other case of C1: a merge has kept a strictly newer unsynced record.
C1_LocalKeptReached ==
  /\ log.msg = "Local version newer, keeping local"
  /\ forms[log.id] # Absent
  /\ ~forms[log.id].synced
  /\ remote[log.id] # Absent
  /\ forms[log.id].localUpdatedAt > remote[log.id].updated_at

\* ---- C2
EntriesOf(q, id) == {i \in q : i.localId = id}
UpsertsOf(q, id) == {i \in EntriesOf(q, id) : i.type \in {"CREATE", "UPDATE"}}

\* C2: in every reachable state the sync queue holds at most one
\* create-or-update entry per record identifier.
C2_OneUpsertPerRecord ==
  \A id \in Ids : Cardinality(UpsertsOf(queue, id)) <= 1

\* ---- C3
\* No drain pass is running, and an entry no drain has attempted.
NoDrain == \A s \in PassSlots : pass[s].pc = "idle"
Unattempted(i) == i.retryCount = 0 /\ i.lastAttemptTime = NoTime

\* The step on which a saveForm / deleteForm call returns.
SaveReturns == ui.op = "save" /\ ui.pc = "enq_add" /\ ui'.pc = "idle"
DeleteReturns ==
  ui.op = "delete" /\ ui.pc \in {"del_delete", "enq_add"} /\ ui'.pc = "idle"

\* C3: when record X, for which an update is queued and not yet drained, is
\* deleted, the queue holds exactly one entry for X once deleteForm returns,
\* and that entry is of kind DELETE.
C3_DeleteSupersedes ==
  [][ ( /\ DeleteReturns
        /\ NoDrain
        /\ \E u \in EntriesOf(queue, ui.existing.localId) :
             u.type = "UPDATE" /\ Unattempted(u) )
      => /\ Cardinality(EntriesOf(queue', ui.existing.localId)) = 1
         /\ \A i \in EntriesOf(queue', ui.existing.localId) : i.type = "DELETE"
    ]_vars

\* ---- C4
\* C4: when an update of record X is enqueued while an earlier, not yet drained
\* update of X is queued, the queue then holds exactly one entry for X, which
\* carries the second payload and retry counter 0.
C4_SecondUpdateReplaces ==
  [][ ( /\ SaveReturns
        /\ NoDrain
        /\ ui.item.type = "UPDATE"
        /\ ui.duplicates # <<>>
        /\ \A k \in 1..Len(ui.duplicates) : Unattempted(ui.duplicates[k]) )
      => /\ Cardinality(EntriesOf(queue', ui.item.localId)) = 1
         /\ \A i \in EntriesOf(queue', ui.item.localId) :
              i.payload = ui.item.payload /\ i.retryCount = 0
    ]_vars

\* ---- C5
\* C5: when saveForm(R) returns with no push or pull in progress, loadForm(R.id)
\* returns a record equal to R in every field of R.
C5_SaveThenLoad ==
  [][ (SaveReturns /\ NoDrain /\ fs.pc = "idle")
      => LET R == ui.item.payload
             loaded == loadForm(forms', R.id)
         IN  /\ loaded # Absent
             /\ \A f \in DOMAIN R : Field(loaded, f) = R[f]
    ]_vars

\* ---- C6
\* The step on which drain pass s ends after its last entry was acknowledged.
PassEndsAcked(s) == pass[s].pc = "remove" /\ pass'[s].pc = "idle"

\* One saveForm of a valid form has been the only event / one such saveForm
\* and one online event have been the only events (each enqueue takes one
\* queue key, and only a saveForm enqueues for a record never pushed).
OnlySaved == events = 1 /\ ~online /\ nextKey = 2
SavedThenOnline ==
  /\ events = 2 /\ online /\ nextKey = 2
  /\ forms["f1"] # Absent /\ validateForm(forms["f1"].form) = ""

Current(s) == pass[s].items[pass[s].i]
Transmits(s) == pass[s].pc \in {"send", "mark_get", "mark_put", "remove"}
PassEnds(s) == pass[s].pc # "idle" /\ pass'[s].pc = "idle"

\* C7: no entry whose retry counter has reached 5 is transmitted, and a drain
\* pass that meets such an entry has removed it from the queue by its end.
C7_RetryCap ==
  [][ \A s \in PassSlots :
        /\ Transmits(s) =>
             /\ Current(s).retryCount < 5
             /\ \A e \in queue : e.id = Current(s).id => e.retryCount < 5
        /\ PassEnds(s) =>
             \A k \in 1..Len(pass[s].items) :
               pass[s].items[k].retryCount >= 5 =>
                 ~\E e \in queue' : e.id = pass[s].items[k].id
    ]_vars

\* C7 witness: an entry that failed five times has just been removed.
C7_DiscardReached ==
  /\ log.msg = "Removing failed item after max retries"
  /\ \A e \in queue : e.retryCount < 5

\* ---- C8
\* The backoff schedule of the claim, by retry count.
C8_B(r) ==
  CASE r = 0 -> 1000 [] r = 1 -> 5000 [] r = 2 -> 15000 [] r = 3 -> 60000
    [] OTHER -> 300000
InWindow(e, t) == e.lastAttemptTime # NoTime /\ t - e.lastAttemptTime < C8_B(e.retryCount)

\* A step on which drain pass s moves on through its snapshot: the snapshot,
\* and the positions of the entries the step passes over.
MovesOn(s) ==
  pass[s].pc # "idle" /\ (pass'[s].pc = "idle" \/ pass'[s].i # pass[s].i)
SnapshotAt(s) ==
  IF pass[s].pc = "fetch" THEN getPendingSyncItems(queue) ELSE pass[s].items
StopsAt(s) ==
  IF pass'[s].pc = "idle" THEN Len(SnapshotAt(s)) + 1 ELSE pass'[s].i
PassedOver(s) ==
  (IF pass[s].pc = "fetch" THEN 1 ELSE pass[s].i + 1) .. (StopsAt(s) - 1)

\* C8: a drain pass passes over an entry only inside the entry's backoff
\* window (retry counter r with 0 < r < 5, the time before t + B[r]) and then
\* leaves the stored entry as it is; the entry it goes on to transmit was
\* never attempted or is at or past t + B[r].
C8_Backoff ==
  [][ \A s \in PassSlots : MovesOn(s) =>
        /\ \A k \in PassedOver(s) :
             LET e == SnapshotAt(s)[k] IN
             /\ e.retryCount > 0 /\ e.retryCount < 5
             /\ InWindow(e, now)
             /\ \A x \in queue : x.id = e.id => x = e /\ x \in queue'
        /\ pass'[s].pc \in {"send", "inc_get"} =>
             ~InWindow(SnapshotAt(s)[StopsAt(s)], now)
    ]_vars

\* C8 witness: an entry that failed before is transmitted again at the very
\* end of its backoff window.
C8_RetryAtDeadlineReached ==
  \E s \in PassSlots :
    /\ pass[s].pc = "send"
    /\ Current(s).retryCount > 0
    /\ now = Current(s).lastAttemptTime + C8_B(Current(s).retryCount)

\* ---- C9
Active == {s \in PassSlots : pass[s].pc # "idle"}

\* C9: at most one drain pass is active at any time, it is the pass the lock
\* names, and a fullSync that called processSyncQueue awaits that same pass.
C9_SingleFlight ==
  /\ Cardinality(Active) <= 1
  /\ \A s \in Active : syncPromise = s
  /\ syncPromise # 0 => syncPromise \in Active
  /\ fs.pc = "await_push" => fs.p # 0 /\ fs.p = syncPromise

\* C9 witness: a saveForm / deleteForm has enqueued its entry, and so called
\* processSyncQueue, while online and after the pass in flight took its
\* snapshot.
C9_CallInFlightReached ==
  /\ events = 3 /\ online /\ nextKey = 3
  /\ ui.pc = "idle"
  /\ \E s \in PassSlots :
       /\ pass[s].pc \notin {"idle", "fetch"}
       /\ \E e \in queue :
            \A k \in 1..Len(pass[s].items) : pass[s].items[k].id # e.id

\* ---- C10
Eligible(e, t) == e.retryCount < 5 /\ ~InWindow(e, t)

\* C10: when the transmission of an entry fails, the stored entry gets its
\* retry counter incremented and its last-attempt time and error stamped, it
\* stays in the queue, no LocalRecord is touched, and the pass goes on to the
\* next eligible entry of its snapshot.
C10_FailureIsolated ==
  [][ \A s \in PassSlots : pass'[s] # pass[s] =>
        /\ pass[s].pc \in {"send", "inc_get"} /\ pass'[s].pc \in {"inc_get", "inc_put"}
           /\ pass'[s].i = pass[s].i
             => forms' = forms /\ queue' = queue
        /\ pass[s].pc = "inc_put" =>
             /\ forms' = forms
             /\ \E e \in queue' :
                  /\ e.id = Current(s).id
                  /\ e.retryCount = Current(s).retryCount + 1
                  /\ e.lastAttemptTime # NoTime /\ e.lastAttemptTime <= now
                  /\ e.error = pass[s].err /\ e.error # ""
             /\ MovesOn(s)
             /\ \A k \in PassedOver(s) : ~Eligible(pass[s].items[k], now)
    ]_vars

\* C10 witness: the first entry of a pass has failed and is back in the queue
\* with its counter incremented, its record unsynced, and the pass is
\* transmitting the second entry.
C10_NextAttemptedReached ==
  \E s \in PassSlots :
    /\ pass[s].pc = "send" /\ pass[s].i = 2 /\ pass[s].failed = 1
    /\ \E e \in queue :
         /\ e.id = pass[s].items[1].id
         /\ e.retryCount = pass[s].items[1].retryCount + 1
         /\ forms[e.localId] # Absent /\ ~forms[e.localId].synced

\* ---- C11
\* The merges in progress (of a pull, of the realtime callback) that are about
\* to read the Local Store, as the remote record each one applies.
MergesReading ==
  (IF fs.pc = "merge_get" /\ fs' # fs THEN {mapRemoteToLocal(fs.data[fs.i])} ELSE {})
  \cup (IF rt.pc = "merge_get" /\ rt' # rt THEN {mapRemoteToLocal(rt.row)} ELSE {})

\* The LocalForms about to be written by the merges that have just decided.
MergesWriting ==
  (IF fs'.pc = "merge_put" /\ fs' # fs THEN {fs'.held} ELSE {})
  \cup (IF rt'.pc = "merge_put" /\ rt' # rt THEN {rt'.held} ELSE {})

\* Remote record r is a draft older than LocalRecord l, which is signed.
StaleDraftOf(r, l) ==
  /\ l # Absent /\ l.form.status = "signed"
  /\ r.status = "draft"
  /\ r.updatedAt < l.localUpdatedAt

\* C11: a merge that meets a signed LocalRecord and a remote draft of it that
\* is older than the signed version does not go on to write the draft over it.
C11_SignedNotOverwritten ==
  [][ \A r \in MergesReading :
        StaleDraftOf(r, FindExisting(forms, r.id)) =>
          ~\E w \in MergesWriting : w.form = r
    ]_vars

\* ---- C12
\* The payload columns of a remote row / whether form carries that payload.
PayloadOf(row) == [row EXCEPT !.updated_at = NoTime]
SamePayload(form, row) == toRemoteRow(form, NoTime) = PayloadOf(row)

\* LocalRecord l is the remote version of its row, as a merge wrote it: the
\* remote payload, marked synced.
TookRemote(l) ==
  /\ l # Absent /\ l.synced
  /\ remote[l.localId] # Absent
  /\ l.form = mapRemoteToLocal(remote[l.localId])

\* Drain pass s takes its snapshot on this step and starts transmitting entry e.
StartsWith(s, e) ==
  /\ pass[s].pc = "fetch" /\ pass'[s].pc = "send"
  /\ e = pass'[s].items[pass'[s].i]

\* C12: once a merge has resolved a conflict in favour of the remote version
\* (the LocalRecord holds the remote payload and is marked synced), no push
\* pass that starts afterwards transmits the superseded local payload.
C12_LostEditNotPushed ==
  [][ \A s \in PassSlots : \A e \in queue :
        (StartsWith(s, e) /\ e.type \in {"CREATE", "UPDATE"}
           /\ TookRemote(forms[e.localId]))
        => SamePayload(e.payload, remote[e.localId])
    ]_vars

\* ---- C13
\* Nothing is queued and no handler is in progress.
Quiescent ==
  /\ queue = {}
  /\ NoDrain
  /\ ui.pc = "idle" /\ fs.pc = "idle" /\ rt.pc = "idle"

\* C13: with this device the only writer of the remote table and no entry
\* dropped at the retry cap, at quiescence every LocalRecord is marked synced
\* and the remote table holds a row with its identifier and its payload.
C13_NothingLost ==
  Quiescent =>
    \A id \in Ids : forms[id] # Absent =>
      /\ forms[id].synced
      /\ remote[id] # Absent
      /\ remote[id].id = id
      /\ SamePayload(forms[id].form, remote[id])

\* ---- C14
\* The remote store has just refused a transmission / the network has failed.
Rejected == log.msg = "Error processing item"

\* Entry k is queued with a payload that passes validation; entry k has left
\* the queue; the LocalRecord of entry k is marked synced (or was deleted).
QueuedValid(k) ==
  \E e \in queue : e.id = k /\ (e.type = "DELETE" \/ validateForm(e.payload) = "")
Drained(k) == \A e \in queue : e.id # k
RecordSynced(k) ==
  \A e \in queue : e.id = k /\ e.type # "DELETE" =>
    forms[e.localId] = Absent \/ forms[e.localId].synced

DeleteDelivered ==
  /\ rt.pc = "idle" /\ channel # <<>>
  /\ Head(channel).eventType = "DELETE"
  /\ channel' = Tail(channel)

\* C15: a delete event delivered by the realtime channel changes neither the
\* Local Store nor the sync queue, and the callback starts no merge: a record
\* with the deleted identifier that is present locally stays as it is.
C15_DeleteEventIgnored ==
  [][ DeleteDelivered =>
        /\ forms' = forms
        /\ queue' = queue
        /\ rt'.pc = "idle"
    ]_vars

\* C15 witness: the delete event of a row another device deleted has been
\* delivered while the record is in the Local Store, marked synced.
C15_DeleteDeliveredReached ==
  /\ log.msg = "Realtime update" /\ log.id = "DELETE"
  /\ remote["f1"] = Absent
  /\ forms["f1"] # Absent /\ forms["f1"].synced

\* ---- C16
\* The steps of a deleteForm call: it finds the record and goes on to delete
\* it; it finds nothing and returns at once (the only call that returns on
\* the step it is made); it deletes the record; it adds its queue entry.
DeleteProceeds == ui.pc = "idle" /\ ui'.pc = "del_delete"
DeleteOfAbsent == events' # events /\ ui' = ui /\ online' = online
DeleteDeletes == ui.pc = "del_delete" /\ ui' # ui
DeleteEnqueues == ui.op = "delete" /\ ui.pc = "enq_add" /\ ui'.pc = "idle"

\* C16: deleteForm of an identifier that is not in the Local Store returns
\* with the store and the queue unchanged; deleteForm of a present record
\* removes it from the store at once and then adds exactly one queue entry, of
\* type DELETE, if the record has a remote id, and none if it has not.
C16_DeleteIdempotent ==
  [][ /\ DeleteOfAbsent => forms' = forms /\ queue' = queue
      /\ DeleteProceeds =>
           LET x == ui'.existing.localId IN
           /\ forms[x] # Absent
           /\ ui'.existing.remoteId = forms[x].remoteId
           /\ forms' = forms /\ queue' = queue
      /\ DeleteDeletes =>
           LET x == ui.existing.localId IN
           /\ forms'[x] = Absent
           /\ queue' = queue
           /\ IF Falsy(ui.existing.remoteId)
              THEN ui'.pc = "idle"
              ELSE /\ ui'.pc = "enq_get"
                   /\ ui'.item.type = "DELETE" /\ ui'.item.localId = x
                   /\ ui'.item.payload.remoteId = ui.existing.remoteId
      /\ DeleteEnqueues =>
           /\ queue \subseteq queue'
           /\ Cardinality(queue' \ queue) = 1
           /\ \A e \in queue' \ queue :
                e.type = "DELETE" /\ e.localId = ui.existing.localId
                  /\ e.retryCount = 0
    ]_vars

\* C16 witness: a record that had been pushed was deleted, its DELETE entry is
\* queued, and a second deleteForm of the same identifier has returned.
C16_DeletedTwiceReached ==
  /\ ui.pc = "idle" /\ events = 4
  /\ forms["f1"] = Absent /\ remote["f1"] # Absent
  /\ Cardinality(EntriesOf(queue, "f1")) = 1
  /\ \A e \in EntriesOf(queue, "f1") : e.type = "DELETE" /\ e.id = 2

\* ---- C17
\* Both tables are empty and no saveForm / deleteForm / reset is in progress.
BothTablesEmpty ==
  /\ \A id \in Ids : forms[id] = Absent
  /\ queue = {}
  /\ ui.pc = "idle"

\* Drain pass s starts transmitting an entry of its snapshot on this step.
BeginsTransmission(s) == pass'[s].pc = "send" /\ pass[s].pc # "send"

\* C17: once clearAll has left the records table and the sync queue empty,
\* and as long as they are, no drain pass starts transmitting an entry (the
\* entries it holds were pending or in flight when clearAll ran) and none
\* writes a record or a queue entry back.
C17_ClearedStaysCleared ==
  [][ BothTablesEmpty =>
        /\ \A s \in PassSlots : ~BeginsTransmission(s)
        /\ forms' = forms
        /\ queue' = queue
    ]_vars

\* ---- C18
\* The connectivity transitions.
ComesOnline == ~online /\ online'
GoesOffline == online /\ ~online'

\* After the step a drain pass is under way / a fullSync (drain pass, then
\* pullFromRemote) is under way.
PushUnderWay == syncPromise' # 0
PullToFollow == fs'.pc # "idle"

\* C18: every offline-to-online transition leaves a push pass under way with
\* a pull pass to follow it (a full bidirectional sync), and an
\* online-to-offline transition changes neither the records nor the queue.
C18_OnlineStartsFullSync ==
  [][ /\ ComesOnline => PushUnderWay /\ PullToFollow
      /\ GoesOffline => forms' = forms /\ queue' = queue
    ]_vars

\* ---- C19
\* getCurrentSyncStatus: the pendingCount handed to the status subscribers.
pendingCount == getUnsyncedCount(forms)

\* No saveForm / deleteForm has a write pending, so that the count read for
\* the notification of the pass's finally block is the one of this state.
NoWritePending == ui.pc = "idle"

\* C19: the pendingCount reported when a drain pass ends is the number of
\* entries left in the sync queue, DELETE entries and entries in backoff
\* included.
C19_PendingIsQueueLength ==
  [][ \A s \in PassSlots :
        (PassEnds(s) /\ NoWritePending') => pendingCount' = Cardinality(queue')
    ]_vars

\* ---- C20
\* The counters of pass s when the step that ends it is taken: the step
\* itself counts the entry it finishes (success++ after removeSyncQueueItem,
\* failed++ after incrementSyncItemRetry).
FailsLast(s) == pass[s].pc \in {"inc_get", "inc_put"}
EndSuccess(s) == pass[s].success + (IF pass[s].pc = "remove" THEN 1 ELSE 0)
EndFailed(s) == pass[s].failed + (IF FailsLast(s) THEN 1 ELSE 0)

\* C20: when a drain pass ends, lastSyncTime is the current time if an entry
\* succeeded in it; lastError is the message of the most recent entry
\* failure (validation or transmission) if an entry failed in it; and
\* lastError is cleared if no entry failed.
C20_StatusAfterPass ==
  [][ \A s \in PassSlots :
        PassEnds(s) =>
          /\ EndSuccess(s) > 0 => lastSyncTime' = now
          /\ EndFailed(s) > 0 => lastError' # ""
          /\ FailsLast(s) => lastError' = pass[s].err
          /\ EndFailed(s) = 0 => lastError' = ""
    ]_vars

\* ---- C21
\* The request of pass s is answered with an error / the select of the pull
\* is answered with an error / incrementSyncItemRetry writes the entry back.
SendFails(s) == pass[s].pc = "send" /\ log'.msg = "Error processing item"
PullFails == fs.pc = "pull_fetch" /\ log'.msg = "Pull from remote failed"
RecordsFailure(s) == pass[s].pc = "inc_put" /\ pass'[s] # pass[s]

\* C21: a remote failure never leaves the engines: a refused transmission is
\* caught inside processSyncItem, the pass goes on to record the message on
\* the entry (its error field, when the entry is still stored) and ends
\* releasing the lock, the fullSync awaiting it being resumed; a failed select
\* ends pullFromRemote with lastError set and the Local Store and the queue
\* as they were.
C21_FailuresCaptured ==
  [][ /\ \A s \in PassSlots :
           /\ SendFails(s) =>
                /\ pass'[s].pc = "inc_get"
                /\ pass'[s].err # ""
                /\ forms' = forms /\ queue' = queue /\ remote' = remote
           /\ RecordsFailure(s) =>
                /\ pass[s].err # ""
                /\ QueueGet(queue', Current(s).id) # Absent
                /\ QueueGet(queue', Current(s).id).error = pass[s].err
           /\ (PassEnds(s) /\ fs.pc = "await_push" /\ fs.p = s) =>
                fs'.pc \in {"pull_fetch", "idle"}
      /\ PullFails =>
           /\ fs' = IdleFS
           /\ lastError' # ""
           /\ forms' = forms /\ queue' = queue
    ]_vars

\* C21 witness: a fullSync has come to its end with the pull's select refused,
\* after its push pass recorded a refused transmission on the entry.
C21_BothFailedReached ==
  /\ log.msg = "Pull from remote failed"
  /\ lastError = "Failed to fetch"
  /\ \E e \in queue : e.error = "Failed to fetch" /\ e.retryCount = 1
  /\ forms["f1"] # Absent /\ ~forms["f1"].synced

\* ---- C22
\* The fields of an IntakeForm that the remote table has a column for and the
\* client sends (updated_at and created_at are stamped by the server).
SchemaFields == {"id", "consignerType", "consignerName", "consignerNumber",
                 "status", "items"}

\* The insert or update of pass s is accepted on this step.
Accepted(s) ==
  /\ pass[s].pc = "send" /\ pass'[s].pc = "mark_get"
  /\ remote'[Current(s).localId] # Absent

\* C22: codec round trip: the row the push engine writes for a record R,
\* mapped back with mapRemoteToLocal, equals R on every field the remote
\* schema defines, absent optional fields, empty strings and an empty item
\* list included.
C22_CodecRoundTrip ==
  [][ \A s \in PassSlots :
        Accepted(s) =>
          \A f \in SchemaFields :
            mapRemoteToLocal(remote'[Current(s).localId])[f] = Current(s).payload[f]
    ]_vars

\* ---- C23
\* The keys of the forms store that hold a record.
Stored == {id \in Ids : forms[id] # Absent}

\* C23: each logical record is in the Local Store under one key: a record is
\* stored under its localId, its remote identifier, when it has one, is that
\* same key, no two records share a remote identifier, and a merge writes
\* under the key of the record it matched (or the remote identifier when it
\* matched none).
C23_OneKeyPerRecord ==
  /\ \A id \in Stored :
       /\ forms[id].localId = id
       /\ forms[id].form.id = id
       /\ forms[id].remoteId \in {NoRemoteId, id}
  /\ \A a, b \in Stored :
       (a # b /\ forms[a].remoteId # NoRemoteId) => forms[a].remoteId # forms[b].remoteId
  /\ fs.pc = "merge_put" =>
       /\ fs.held.localId = fs.held.remoteId
       /\ \A id \in Stored : forms[id].remoteId = fs.held.remoteId => id = fs.held.localId

\* C23 witness: both records are stored with a remote identifier, and a merge
\* is about to write the remote version of one of them over the copy that is
\* already there.
C23_MergeOverCopyReached ==
  /\ fs.pc = "merge_put"
  /\ Stored = Ids
  /\ \A id \in Ids : forms[id].remoteId = id
  /\ forms[fs.held.localId].form # fs.held.form

\* ---- C24
\* The update request of pass s is answered without an error on this step:
\* processSyncItem goes on to markFormSynced and returns true.
UpdateSucceeds(s) ==
  /\ pass[s].pc = "send" /\ pass'[s].pc = "mark_get"
  /\ Current(s).type = "UPDATE"

\* C24: an UPDATE transmission that the push engine treats as succeeded is an
\* upsert by identifier: afterwards the remote store holds a row for the
\* record with the entry's payload, whether or not a row existed before.
C24_UpdateIsUpsert ==
  [][ \A s \in PassSlots :
        UpdateSucceeds(s) =>
          /\ remote'[Current(s).localId] # Absent
          /\ SamePayload(Current(s).payload, remote'[Current(s).localId])
    ]_vars

\* ---- C25
\* The payloads the claim calls invalid, stated on the payload itself.
InvalidPayload(form) ==
  \/ form.id = ""
  \/ form.consignerType \notin {"new", "existing"}
  \/ form.consignerType = "new" /\ form.consignerName \in {"", " "}
  \/ form.consignerType = "existing" /\ form.consignerNumber = ""
InvalidEntry(item) ==
  item.type \in {"CREATE", "UPDATE"} /\ InvalidPayload(item.payload)

\* Pass s comes to entry k of its snapshot on this step.
ComesTo(s, k) ==
  /\ pass'[s].pc # "idle" /\ pass'[s].i = k
  /\ pass[s].pc = "fetch" \/ pass[s].i < k

\* C25: a create or update entry with an invalid payload is never
\* transmitted: the pass that comes to it goes straight to
\* incrementSyncItemRetry with the validation error, which writes the entry
\* back with that error and its retry counter incremented, the entry stays in
\* the queue, and the pass goes on with the rest of its snapshot.  validateForm
\* also turns down a payload with an empty identifier.
C25_InvalidNeverSent ==
  [][ /\ \A s \in PassSlots :
           /\ Transmits(s) => ~InvalidEntry(Current(s))
           /\ \A k \in 1..Len(pass'[s].items) :
                (ComesTo(s, k) /\ InvalidEntry(pass'[s].items[k])) =>
                  /\ pass'[s].pc = "inc_get"
                  /\ pass'[s].err = validateForm(pass'[s].items[k].payload)
                  /\ pass'[s].err # ""
                  /\ log'.msg = "Validation failed"
           /\ (RecordsFailure(s) /\ InvalidEntry(Current(s))) =>
                /\ QueueGet(queue', Current(s).id) # Absent
                /\ QueueGet(queue', Current(s).id).error = pass[s].err
                /\ QueueGet(queue', Current(s).id).retryCount = Current(s).retryCount + 1
                /\ remote' = remote
                /\ pass'[s].pc = "idle" =>
                     Scan(pass[s].items, pass[s].i + 1, now) > Len(pass[s].items)
      /\ \A form \in InvalidInputs("") : validateForm(form) = "Missing form ID"
    ]_vars

\* C25 witness: a pass has recorded the validation failure of the first entry
\* of its snapshot, which is in the queue with retry counter 1, and has gone
\* on to transmit the second one.
C25_NextAfterInvalidReached ==
  \E s \in PassSlots :
    /\ pass[s].pc = "send" /\ pass[s].i = 2
    /\ InvalidEntry(pass[s].items[1])
    /\ \E e \in queue :
         /\ e.id = pass[s].items[1].id
         /\ e.retryCount = 1
         /\ e.error = "New consigner requires name"

\* ---- C26
\* The step is a processSyncQueue() call: an event that leaves the UI, the
\* connectivity, the clock and the remote table as they are.
CallMade ==
  /\ events' # events
  /\ ui' = ui /\ fs' = fs /\ online' = online /\ now' = now /\ remote' = remote

\* C26: a processSyncQueue() call made while offline or in a build without
\* remote configuration changes nothing: the queue (entries, retry counters,
\* last-attempt times), the Local Store, the remote store, the lock and the
\* passes stay as they are, and with no pass in flight the call returns at
\* once (zero processed) instead of the promise of a pass.
C26_GuardedCallChangesNothing ==
  [][ (CallMade /\ (~online \/ ~isSupabaseConfigured)) =>
        /\ queue' = queue /\ nextKey' = nextKey
        /\ forms' = forms
        /\ syncPromise' = syncPromise
        /\ pass' = pass
        /\ lastSyncTime' = lastSyncTime /\ lastError' = lastError
        /\ ~LockHeld => PromiseOfCall = 0
    ]_vars

\* C26 witness: one record is saved and its entry queued, the device is
\* offline, nothing runs, and the second event was a processSyncQueue() call.
C26_CalledOfflineReached ==
  /\ events = 2 /\ ~online /\ isSupabaseConfigured
  /\ nextKey = 2 /\ queue # {} /\ forms["f1"] # Absent
  /\ ui.pc = "idle" /\ syncPromise = 0

\* ---- C27
\* The step is the process stopping and starting again.
Crashes == events' # events /\ online' = online /\ now' = now /\ ui' = IdleUI

\* Record id has changes that were never pushed / has a create or update
\* entry in the queue.
Unpushed(id) == forms[id] # Absent /\ ~forms[id].synced
HasUpsert(id) ==
  \E e \in queue : e.localId = id /\ e.type \in {"CREATE", "UPDATE"}

\* C27: crash consistency: at whatever point of a saveForm or of a drain pass
\* the process stops, the stores it leaves hold no record with unpushed
\* changes that has no queue entry; the worst that is left is a record marked
\* synced whose entry is still queued.
C27_CrashConsistent ==
  [][ Crashes => \A id \in Ids : Unpushed(id)' => HasUpsert(id)' ]_vars

\* ---- C28
\* The merge in progress meets no conflict: no LocalRecord matches the remote
\* record's identifier, or the one that does is marked synced.
NoConflict == MergeLocal = Absent \/ MergeLocal.synced

\* C28: updateFormFromRemote without conflict: with no matching LocalRecord
\* the remote record is inserted under its identifier, marked synced; a
\* matching LocalRecord marked synced is overwritten with the remote version
\* under its own key and stays synced; the put writes that record and no
\* other, and the sync queue is not touched.
C28_MergeWithoutConflict ==
  [][ /\ (MergeDecides /\ NoConflict) =>
           /\ fs'.pc = "merge_put"
           /\ fs'.held.form = MergeRemote
           /\ fs'.held.synced
           /\ fs'.held.remoteId = MergeRemote.id
           /\ fs'.held.localId = IF MergeLocal = Absent THEN MergeRemote.id
                                 ELSE MergeLocal.localId
           /\ forms' = forms /\ queue' = queue
      /\ MergeWrites =>
           /\ forms' = [forms EXCEPT ![fs.held.localId] = fs.held]
           /\ queue' = queue
    ]_vars

\* C28 witness: a pull has inserted record f2, which no LocalRecord matched,
\* and is about to overwrite the synced copy of f1 with a different remote
\* version.
C28_BothCasesReached ==
  /\ fs.pc = "merge_put" /\ fs.held.localId = "f1"
  /\ forms["f1"] # Absent /\ forms["f1"].synced
  /\ forms["f1"].form # fs.held.form
  /\ forms["f2"] # Absent /\ forms["f2"].synced
  /\ forms["f2"].form = mapRemoteToLocal(remote["f2"])

\* ---- C29
\* The delete request of pass s, whose target row is not in the remote table,
\* is answered on this step / pass s removes a DELETE entry on this step.
DeleteOfMissing(s) ==
  /\ pass[s].pc = "send" /\ pass'[s] # pass[s]
  /\ Current(s).type = "DELETE"
  /\ remote[Current(s).payload.remoteId] = Absent
RemovesDelete(s) ==
  /\ pass[s].pc = "remove" /\ pass'[s] # pass[s]
  /\ Current(s).type = "DELETE"

\* C29: a DELETE entry whose row is already absent from the remote store is a
\* success: unless the request fails to reach the store, the pass goes on to
\* remove the entry, which leaves the queue in that pass with no retry counter
\* incremented.
C29_DeleteOfMissingSucceeds ==
  [][ \A s \in PassSlots :
        /\ DeleteOfMissing(s) =>
             \/ /\ pass'[s].pc = "remove"
                /\ remote' = remote /\ queue' = queue
             \/ /\ pass'[s].pc = "inc_get"
                /\ pass'[s].err = "Failed to fetch"
        /\ RemovesDelete(s) =>
             /\ QueueGet(queue', Current(s).id) = Absent
             /\ queue' \subseteq queue
    ]_vars

\* C29 witness: another device has deleted the row, and the pass that sent
\* this device's DELETE entry afterwards is about to remove the entry, its
\* retry counter still 0.
C29_MissingRowDeletedReached ==
  \E s \in PassSlots :
    /\ pass[s].pc = "remove"
    /\ Current(s).type = "DELETE"
    /\ channel # <<>> /\ Head(channel).eventType = "DELETE"
    /\ QueueGet(queue, Current(s).id) # Absent
    /\ QueueGet(queue, Current(s).id).retryCount = 0

MarksSynced(s) == pass[s].pc = "mark_put" /\ pass'[s] # pass[s]

\* C31: last local write wins under interleaving with a push: when the
\* mark-synced step of a pass writes record X, the payload X holds afterwards
\* is the one it held before; a payload saved while the pass was transmitting
\* an earlier one is not replaced by the older payload.
C31_LastLocalWriteWins ==
  [][ \A s \in PassSlots :
        (MarksSynced(s) /\ forms[pass[s].held.localId] # Absent) =>
          forms'[pass[s].held.localId].form = forms[pass[s].held.localId].form
    ]_vars

\* ---- C32
\* Entry k is queued, has never been attempted, and is absent from the
\* snapshot of a drain pass in flight.
EnqueuedDuringPass(k) ==
  /\ \E e \in queue : e.id = k /\ Unattempted(e)
  /\ \E s \in PassSlots :
       /\ pass[s].pc \notin {"idle", "fetch"}
       /\ \A j \in 1..Len(pass[s].items) : pass[s].items[j].id # k

\* A drain pass has come to entry k and called processSyncItem on it (or the
\* entry has left the queue).
Attempted(k) ==
  \/ \E s \in PassSlots :
       /\ pass[s].pc \notin {"idle", "fetch"}
       /\ Current(s).id = k
  \/ \A e \in queue : e.id = k => ~Unattempted(e)

BeingRemoved(e) ==
  \E s \in PassSlots : pass[s].pc = "remove" /\ Current(s).id = e.id

\* C33: a LocalRecord marked synced has no create or update entry for its
\* identifier left in the sync queue (other than the entry whose
\* acknowledgement has just marked it, until that entry's removal).
C33_SyncedHasNoEntry ==
  \A id \in Ids :
    (forms[id] # Absent /\ forms[id].synced) =>
      \A e \in UpsertsOf(queue, id) : BeingRemoved(e)

\* ---- C34
\* saveFormLocally has written record id and has still to enqueue its entry.
BeingEnqueued(id) ==
  ui.op = "save" /\ ui.pc \in {"enq_get", "enq_del", "enq_add"} /\ ui.local.localId = id

\* C34: every LocalRecord with unpushed changes (synced = false) has at least
\* one create or update entry for its identifier in the sync queue (or the
\* save that wrote it is about to enqueue one), also after an entry has been
\* discarded at the retry cap.
C34_UnpushedHasEntry ==
  \A id \in Ids : Unpushed(id) => (HasUpsert(id) \/ BeingEnqueued(id))

\* ---- C35
\* saveForm of record id is in progress.
BeingSaved(id) == ui.op = "save" /\ ui.pc # "idle" /\ ui.local.localId = id

\* C35: with this device the only writer of the remote table, a record that is
\* absent from the Local Store while its row exists remotely is one that was
\* deleted locally; no merge of a pull pass inserts it again (unless a save of
\* it has been started since).
C35_DeletedStaysDeleted ==
  [][ \A id \in Ids :
        (MergeWrites /\ forms[id] = Absent /\ ~BeingSaved(id)) =>
          forms'[id] = Absent
    ]_vars

\* ---- C36
\* C36: a record that was deleted locally before it was ever pushed (it is
\* absent from the Local Store and has no remote row) is not inserted into the
\* remote store by a later push pass, unless a save of it has been started
\* since.
C36_DeletedNeverInserted ==
  [][ \A id \in Ids :
        (remote[id] = Absent /\ forms[id] = Absent /\ ~BeingSaved(id)) =>
          remote'[id] = Absent
    ]_vars

\* ---- C37
\* The request of the entry pass s holds is answered without an error on this
\* step: processSyncItem returns true and the entry is counted a success.
Acknowledged(s) ==
  pass[s].pc = "send" /\ pass'[s].pc \in {"mark_get", "remove"}

\* An entry of the same record enqueued before item (a smaller key) is still
\* in the queue.
EarlierQueued(item) ==
  \E e \in queue : e.localId = item.localId /\ e.id < item.id

\* C37: per-record ordering: an entry is never acknowledged as succeeded while
\* an earlier entry of the same record is still in the queue.
C37_PerRecordOrder ==
  [][ \A s \in PassSlots : Acknowledged(s) => ~EarlierQueued(Current(s)) ]_vars

\* ---- C38
\* The record stored under the key the merge of the pull is about to write is
\* an unpushed edit strictly newer than the remote version the merge holds.
NewerEditStored ==
  LET stored == forms[fs.held.localId] IN
  /\ stored # Absent
  /\ ~stored.synced
  /\ stored.localUpdatedAt > fs.held.form.updatedAt

\* C38: merge atomicity: when updateFormFromRemote comes to its write and the
\* Local Store holds, under that key, an unpushed edit strictly newer than the
\* remote updatedAt (a save completed since the merge read the store), the
\* write leaves that edit as it is.
C38_MergeKeepsNewerEdit ==
  [][ (MergeWrites /\ NewerEditStored) =>
        forms'[fs.held.localId] = forms[fs.held.localId]
    ]_vars

\* ---- C39
\* The entries of the queue stored under the key of the entry pass s holds.
StoredOf(s) == {e \in queue : e.id = Current(s).id}

\* C39: the retry counter of every queue entry is between 0 and 5, and no
\* entry is transmitted more than 5 times: a transmission begins only on an
\* entry whose stored counter, equal to the one in the pass's snapshot, is at
\* most 4, and every refused transmission raises the stored counter by one, so
\* the transmissions of an entry are made at counters 0, 1, 2, 3 and 4.
C39_RetryBounded ==
  [][ /\ \A e \in queue' : e.retryCount \in 0..5
      /\ \A s \in PassSlots :
           /\ BeginsTransmission(s) =>
                \A e \in queue' :
                  e.id = pass'[s].items[pass'[s].i].id =>
                    /\ e.retryCount = pass'[s].items[pass'[s].i].retryCount
                    /\ e.retryCount <= 4
           /\ RecordsFailure(s) =>
                /\ \A e \in StoredOf(s) : pass[s].held.retryCount = e.retryCount + 1
                /\ pass[s].held \in queue'
    ]_vars

\* C39 witness: an entry has been refused five times: its counter is 5, it is
\* still queued and no pass is in progress.
C39_CapReached ==
  /\ NoDrain
  /\ \E e \in queue : e.retryCount = 5 /\ e.lastAttemptTime # NoTime

====
